---------------------------- MODULE Spec2Model ----------------------------
(***************************************************************************)
(* Agent-based housing market of real_estate_toolkit: House,               *)
(* HousingMarket, Consumer and the Simulation driver.                      *)
(*                                                                         *)
(* Python objects are modelled by reference: `objects` is the heap of      *)
(* House objects, a market and a Consumer.house hold indices into it.      *)
(* Python floats are modelled as exact rationals <<n, d>> in lowest terms  *)
(* (d > 0); for the amounts used here the float results are exact.         *)
(***************************************************************************)
EXTENDS Integers, Sequences, FiniteSets

-----------------------------------------------------------------------------
(* Bounds of the model *)

MaxHouses == 2      \* input records of a Simulation
MaxConsumers == 2   \* consumers_number of a Simulation
MaxAccrual == 1     \* periods accrued per consumer during a Simulation run
MaxBuilds == 1      \* calls of each constructing stage of a Simulation
MaxMarket == 3      \* houses of a HousingMarket built directly
MaxYears == 3       \* periods accrued by a Consumer built directly
MaxRecords == 2     \* input records of a Simulation fed with arbitrary records
MaxRebuilds == 2    \* calls of create_housing_market on such a Simulation

(* Values the inputs are drawn from *)
Prices == {100000, 150000, 200000}
IncomeDraws == {400000, 600000}
DirectIncomes == {50000, 400000, 600000}
MaxPrices == {<<120000, 1>>, <<150000, 1>>, <<585900, 4>>}
Bedrooms == {2, 3}
Areas == {1600}
YearsBuilt == {1990}
Ids == {1, 2}
IncomeLimits == {300000, 500000, 700000}
QualityAreas == {149, 150, 199, 200, 1499, 1500, 1999, 2000}
QualityYears == {79, 80, 99, 100, 149, 150, 1979, 1980, 1999, 2000, 2019, 2020}

-----------------------------------------------------------------------------
(* Exact rational arithmetic standing for Python float arithmetic *)

RECURSIVE GCD(_, _)
GCD(a, b) == IF b = 0 THEN a ELSE GCD(b, a % b)

Abs(x) == IF x < 0 THEN -x ELSE x

Norm(q) ==
    LET g == GCD(Abs(q[1]), q[2])
    IN  <<q[1] \div g, q[2] \div g>>

Q(n) == <<n, 1>>
(* Common factors are cancelled before multiplying, to keep the integers small *)
RAdd(p, q) ==
    LET g == GCD(p[2], q[2])
    IN  Norm(<<p[1] * (q[2] \div g) + q[1] * (p[2] \div g), (p[2] \div g) * q[2]>>)
RMul(p, q) ==
    LET a == Norm(<<p[1], q[2]>>)
        b == Norm(<<q[1], p[2]>>)
    IN  <<a[1] * b[1], a[2] * b[2]>>
RLe(p, q) == p[1] * q[2] <= q[1] * p[2]

(* round(x, 2) for x >= 0: nearest multiple of 1/100, ties to even *)
Round2(q) ==
    LET s == q[1] * 100
        f == s \div q[2]
        r == s % q[2]
        c == IF 2 * r < q[2] THEN f
             ELSE IF 2 * r > q[2] THEN f + 1
             ELSE IF f % 2 = 0 THEN f ELSE f + 1
    IN  Norm(<<c, 100>>)

-----------------------------------------------------------------------------
(* Enumerations and dataclass defaults *)

(* Optional[T]: None is the empty sequence, a value x is <<x>> *)
None == <<>>
Some(x) == <<x>>

INCOME_ORDER_DESCENDANT == "INCOME_ORDER_DESCENDANT"
INCOME_ORDER_ASCENDANT == "INCOME_ORDER_ASCENDANT"
RANDOM == "RANDOM"
CleaningMarketMechanism == {INCOME_ORDER_DESCENDANT, INCOME_ORDER_ASCENDANT, RANDOM}

Segment == {"FANCY", "OPTIMIZER", "AVERAGE"}

saving_rate == <<3, 10>>
interest_rate == <<1, 20>>


-----------------------------------------------------------------------------
(* State *)

VARIABLES
    sim,              \* the Simulation dataclass fields (configuration)
    attrs,            \* attributes set on the Simulation after construction
    objects,          \* heap of House objects, referenced by index
    housing_market,   \* HousingMarket.houses: list of references into objects
    consumers,        \* Simulation.consumers: list of Consumer objects
    result,           \* last call: its name, the exception raised, the value returned
    sold,             \* references on which sell_house has been called
    accrued,          \* consumer id -> periods accrued so far (bounds the run)
    builds,           \* calls of each constructing stage so far (bounds the run)
    income,           \* create_consumers in progress: its local variable income
    house_class       \* the module the class House in use was imported from

vars == <<sim, attrs, objects, housing_market, consumers, result, sold, accrued, builds,
          income, house_class>>

Returned(op, v) == [op |-> op, raised |-> "", value |-> v]
Raised(op, e) == [op |-> op, raised |-> e, value |-> None]

Range(s) == {s[i] : i \in 1..Len(s)}

RECURSIVE SeqsUpTo(_, _)
SeqsUpTo(S, n) ==
    IF n = 0 THEN {<<>>}
    ELSE LET shorter == SeqsUpTo(S, n - 1)
         IN  shorter \cup {Append(s, x) : s \in {t \in shorter : Len(t) = n - 1}, x \in S}

-----------------------------------------------------------------------------
(* House *)

(* A House built from a record without the optional quality_score and      *)
(* available fields.                                                        *)
House(data) ==
    [id |-> data.id, price |-> data.price, area |-> data.area,
     bedrooms |-> data.bedrooms, year_built |-> data.year_built,
     quality_score |-> None, available |-> TRUE]

QualityScore == {"EXCELLENT", "GOOD", "AVERAGE", "FAIR", "POOR"}

(* The default of the parameter current_year of is_new_construction *)
current_year == 2024

is_new_construction(self) == (current_year - self.year_built) < 5

(* Mutant: the Good rule is tried before the Excellent rule *)
get_quality_score_good_first(self) ==
    [self EXCEPT !.quality_score =
        IF self.area >= 2000 /\ self.year_built >= 2000 THEN Some("GOOD")
        ELSE IF is_new_construction(self) /\ self.area >= 2000 THEN Some("EXCELLENT")
        ELSE IF self.area >= 1500 /\ self.year_built >= 1980 THEN Some("AVERAGE")
        ELSE IF self.area < 1500 \/ self.year_built < 1980 THEN Some("FAIR")
        ELSE Some("POOR")]

(* Mutant: the Fair rule asks for a small area and an old build together *)
get_quality_score_fair_both(self) ==
    [self EXCEPT !.quality_score =
        IF is_new_construction(self) /\ self.area >= 2000 THEN Some("EXCELLENT")
        ELSE IF self.area >= 2000 /\ self.year_built >= 2000 THEN Some("GOOD")
        ELSE IF self.area >= 1500 /\ self.year_built >= 1980 THEN Some("AVERAGE")
        ELSE IF self.area < 1500 /\ self.year_built < 1980 THEN Some("FAIR")
        ELSE Some("POOR")]

(* get_quality_score of the class House of _agent_based_model.houses *)
get_quality_score(self) ==
    [self EXCEPT !.quality_score =
        IF is_new_construction(self) /\ self.area >= 2000 THEN Some("EXCELLENT")
        ELSE IF self.area >= 2000 /\ self.year_built >= 2000 THEN Some("GOOD")
        ELSE IF self.area >= 1500 /\ self.year_built >= 1980 THEN Some("AVERAGE")
        ELSE IF self.area < 1500 \/ self.year_built < 1980 THEN Some("FAIR")
        ELSE Some("POOR")]

(* get_quality_score of the class House of agent_based_model.houses *)
agent_based_model_get_quality_score(self) ==
    [self EXCEPT !.quality_score =
        IF is_new_construction(self) /\ self.area >= 200 THEN Some("EXCELLENT")
        ELSE IF self.area >= 200 /\ self.year_built >= 150 THEN Some("GOOD")
        ELSE IF self.area >= 150 /\ self.year_built >= 100 THEN Some("AVERAGE")
        ELSE IF self.area < 150 \/ self.year_built < 80 THEN Some("FAIR")
        ELSE Some("POOR")]

(* Mutant: the sale also clears the price *)
sell_house_repricing(house) == [house EXCEPT !.available = FALSE, !.price = 0]

(* Mutant: the flag is flipped instead of cleared *)
sell_house_toggling(house) == [house EXCEPT !.available = ~house.available]

sell_house(house) == [house EXCEPT !.available = FALSE]

-----------------------------------------------------------------------------
(* HousingMarket *)

(* Mutant: sold houses are averaged too *)
calculate_average_price_of_all(heap, houses, bedrooms) ==
    LET filtered_houses ==
            IF bedrooms # None
            THEN SelectSeq(houses, LAMBDA r : heap[r].bedrooms = bedrooms[1])
            ELSE houses
        Sum[k \in 0..Len(filtered_houses)] ==
            IF k = 0 THEN 0 ELSE Sum[k - 1] + heap[filtered_houses[k]].price
    IN  IF filtered_houses = <<>> THEN Q(0)
        ELSE Round2(<<Sum[Len(filtered_houses)], Len(filtered_houses)>>)

calculate_average_price(heap, houses, bedrooms) ==
    LET available_houses == SelectSeq(houses, LAMBDA r : heap[r].available)
        filtered_houses ==
            IF bedrooms # None
            THEN SelectSeq(available_houses, LAMBDA r : heap[r].bedrooms = bedrooms[1])
            ELSE available_houses
        Sum[k \in 0..Len(filtered_houses)] ==
            IF k = 0 THEN 0 ELSE Sum[k - 1] + heap[filtered_houses[k]].price
    IN  IF filtered_houses = <<>> THEN Q(0)
        ELSE Round2(<<Sum[Len(filtered_houses)], Len(filtered_houses)>>)

get_house_by_id(heap, houses, house_id) ==
    LET matching == SelectSeq(houses, LAMBDA r : heap[r].id = house_id)
    IN  IF matching = <<>> THEN None ELSE Some(matching[1])

(* Mutant: a house priced exactly max_price is left out *)
get_houses_strictly_below(heap, houses, max_price, segment) ==
    SelectSeq(houses, LAMBDA r : heap[r].available /\ ~RLe(max_price, Q(heap[r].price)))

(* Mutant: sold houses are offered again *)
get_houses_ignoring_availability(heap, houses, max_price, segment) ==
    SelectSeq(houses, LAMBDA r : RLe(Q(heap[r].price), max_price))

get_houses_that_meet_requirements(heap, houses, max_price, segment) ==
    SelectSeq(houses, LAMBDA r : heap[r].available /\ RLe(Q(heap[r].price), max_price))

-----------------------------------------------------------------------------
(* Consumer *)

Consumer(id, annual_income, children_number, segment, savings, rate, interest) ==
    [id |-> id, annual_income |-> annual_income, children_number |-> children_number,
     segment |-> segment, savings |-> savings, saving_rate |-> rate,
     interest_rate |-> interest, house |-> None]

(* Class attributes of Consumer: the dataclass fields that have a default *)
ConsumerClass ==
    [savings |-> Q(0), saving_rate |-> saving_rate,
     interest_rate |-> interest_rate, house |-> None]

(* Mutant: the savings are compounded before the contribution is added *)
RECURSIVE compute_savings_interest_first(_, _)
compute_savings_interest_first(self, years) ==
    IF years = 0 THEN self
    ELSE LET compounded == RMul(self.savings, RAdd(Q(1), self.interest_rate))
             contributed == RAdd(compounded, RMul(Q(self.annual_income), self.saving_rate))
         IN  compute_savings_interest_first([self EXCEPT !.savings = contributed], years - 1)

RECURSIVE compute_savings(_, _)
compute_savings(self, years) ==
    IF years = 0 THEN self
    ELSE LET contributed == RAdd(self.savings, RMul(Q(self.annual_income), self.saving_rate))
             compounded == RMul(contributed, RAdd(Q(1), self.interest_rate))
         IN  compute_savings([self EXCEPT !.savings = compounded], years - 1)

(* Mutant: no early return for a consumer that owns a house *)
buy_a_house_again(self, heap, houses) ==
    LET affordable_houses ==
            get_houses_that_meet_requirements(heap, houses, self.savings, self.segment)
    IN  IF affordable_houses = <<>> THEN <<self, heap>>
        ELSE LET house_to_buy == affordable_houses[1]
             IN  <<[self EXCEPT !.house = Some(house_to_buy)],
                   [heap EXCEPT ![house_to_buy] = sell_house(heap[house_to_buy])]>>

(* Mutant: the cheapest affordable house is bought *)
buy_a_house_cheapest(self, heap, houses) ==
    IF self.house # None THEN <<self, heap>>
    ELSE LET affordable_houses ==
                 get_houses_that_meet_requirements(heap, houses, self.savings, self.segment)
         IN  IF affordable_houses = <<>> THEN <<self, heap>>
             ELSE LET house_to_buy ==
                          CHOOSE r \in Range(affordable_houses) :
                              \A x \in Range(affordable_houses) : heap[r].price <= heap[x].price
                  IN  <<[self EXCEPT !.house = Some(house_to_buy)],
                        [heap EXCEPT ![house_to_buy] = sell_house(heap[house_to_buy])]>>

(* Mutant: the first available house is bought, whatever its price *)
buy_a_house_unaffordable(self, heap, houses) ==
    IF self.house # None THEN <<self, heap>>
    ELSE LET affordable_houses == SelectSeq(houses, LAMBDA r : heap[r].available)
         IN  IF affordable_houses = <<>> THEN <<self, heap>>
             ELSE LET house_to_buy == affordable_houses[1]
                  IN  <<[self EXCEPT !.house = Some(house_to_buy)],
                        [heap EXCEPT ![house_to_buy] = sell_house(heap[house_to_buy])]>>

(* Mutant: the house is taken without being marked as sold *)
buy_a_house_unsold(self, heap, houses) ==
    IF self.house # None THEN <<self, heap>>
    ELSE LET affordable_houses ==
                 get_houses_that_meet_requirements(heap, houses, self.savings, self.segment)
         IN  IF affordable_houses = <<>> THEN <<self, heap>>
             ELSE <<[self EXCEPT !.house = Some(affordable_houses[1])], heap>>

(* buy_a_house: the pair <<consumer after, heap after>> *)
buy_a_house(self, heap, houses) ==
    IF self.house # None THEN <<self, heap>>
    ELSE LET affordable_houses ==
                 get_houses_that_meet_requirements(heap, houses, self.savings, self.segment)
         IN  IF affordable_houses = <<>> THEN <<self, heap>>
             ELSE LET house_to_buy == affordable_houses[1]
                  IN  <<[self EXCEPT !.house = Some(house_to_buy)],
                        [heap EXCEPT ![house_to_buy] = sell_house(heap[house_to_buy])]>>


-----------------------------------------------------------------------------
(* Simulation: construction *)

(* Input records: complete records, identifiers 1..n in input order *)
DataRecords(beds) ==
    [price : Prices, area : Areas, bedrooms : beds, year_built : YearsBuilt]

WithIds(records) ==
    [i \in 1..Len(records) |->
        [id |-> i, price |-> records[i].price, area |-> records[i].area,
         bedrooms |-> records[i].bedrooms, year_built |-> records[i].year_built]]

DataLists(beds, n) == {WithIds(records) : records \in SeqsUpTo(DataRecords(beds), n)}

Min(S) == CHOOSE x \in S : \A y \in S : x <= y
Max(S) == CHOOSE x \in S : \A y \in S : x >= y

Simulations ==
    [housing_market_data : DataLists({Max(Bedrooms)}, MaxHouses),
     consumers_number : 0..MaxConsumers,
     years : 1..MaxAccrual,
     annual_income : {[minimum |-> Min(IncomeDraws), maximum |-> Max(IncomeDraws)]},
     children_range : {[minimum |-> 0, maximum |-> 0]},
     cleaning_market_mechanism : CleaningMarketMechanism,
     saving_rate : {saving_rate},
     interest_rate : {interest_rate}]

Init ==
    /\ sim \in Simulations
    /\ attrs = {}
    /\ objects = <<>>
    /\ housing_market = <<>>
    /\ consumers = <<>>
    /\ result = Returned("__init__", None)
    /\ sold = {}
    /\ accrued = <<>>
    /\ builds = [housing_market |-> 0, consumers |-> 0]
    /\ income = None
    /\ house_class = "agent_based_model.houses"

-----------------------------------------------------------------------------
(* Simulation: stages *)

(* The call of House with the keys of data as keyword arguments binds when *)
(* every field without a default is given and every key is a field of      *)
(* House; otherwise it raises TypeError.                                    *)
HouseFields == {"id", "price", "area", "bedrooms", "year_built"}
OptionalHouseFields == {"quality_score", "available"}
Binds(data) ==
    /\ HouseFields \subseteq DOMAIN data
    /\ DOMAIN data \subseteq HouseFields \cup OptionalHouseFields

(* Mutant: the records that do not bind are skipped, the others installed *)
CreateHousingMarket_skipping(cap) ==
    /\ builds.housing_market < cap
    /\ LET data == SelectSeq(sim.housing_market_data, Binds)
           base == Len(objects)
       IN  /\ objects' = objects \o [i \in 1..Len(data) |-> House(data[i])]
           /\ housing_market' = [i \in 1..Len(data) |-> base + i]
    /\ attrs' = attrs \cup {"housing_market"}
    /\ result' = Returned("create_housing_market", None)
    /\ builds' = [builds EXCEPT !.housing_market = @ + 1]
    /\ UNCHANGED <<sim, consumers, sold, accrued, income, house_class>>

(* create_housing_market, called at most cap times. The list of Houses is   *)
(* built first; self.housing_market is assigned only when that succeeded.   *)
CreateHousingMarket(cap) ==
    /\ builds.housing_market < cap
    /\ LET data == sim.housing_market_data
           base == Len(objects)
       IN  IF \A i \in 1..Len(data) : Binds(data[i])
           THEN /\ objects' = objects \o [i \in 1..Len(data) |-> House(data[i])]
                /\ housing_market' = [i \in 1..Len(data) |-> base + i]
                /\ attrs' = attrs \cup {"housing_market"}
                /\ result' = Returned("create_housing_market", None)
           ELSE /\ result' = Raised("create_housing_market", "TypeError")
                /\ UNCHANGED <<objects, housing_market, attrs>>
    /\ builds' = [builds EXCEPT !.housing_market = @ + 1]
    /\ UNCHANGED <<sim, consumers, sold, accrued, income, house_class>>

(* Mutant: only the upper limit is tested *)
rejected_above(statistics, x) == x > statistics.maximum

(* Mutant: every draw is rejected *)
rejected_always(statistics, x) == TRUE

(* The condition of the rejection loop *)
rejected(statistics, x) == x < statistics.minimum \/ x > statistics.maximum

(* One accepted draw of the rejection-sampling loop, with the other draws.   *)
(* When no draw can be accepted and consumers_number > 0 the loop does not   *)
(* end: create_consumers then has no successor state.                       *)
ConsumerDraws ==
    [income : {d \in IncomeDraws : ~rejected(sim.annual_income, d)},
     children : sim.children_range.minimum..sim.children_range.maximum,
     segment : Segment]

CreateConsumers ==
    /\ builds.consumers < MaxBuilds
    /\ \E draws \in [1..sim.consumers_number -> ConsumerDraws] :
          consumers' =
              [i \in 1..sim.consumers_number |->
                  Consumer(i - 1, draws[i].income, draws[i].children, draws[i].segment,
                           RMul(Q(draws[i].income), sim.saving_rate),
                           sim.saving_rate, sim.interest_rate)]
    /\ attrs' = attrs \cup {"consumers"}
    /\ accrued' = [i \in 1..sim.consumers_number |-> 0]
    /\ builds' = [builds EXCEPT !.consumers = @ + 1]
    /\ result' = Returned("create_consumers", None)
    /\ UNCHANGED <<sim, objects, housing_market, sold, income, house_class>>

(* Mutant: a missing list of consumers is taken for an empty one *)
ComputeConsumersSavings_defaulting ==
    /\ result' =
          IF "consumers" \notin attrs \/ consumers = <<>>
          THEN Returned("compute_consumers_savings", None)
          ELSE Raised("compute_consumers_savings", "TypeError")
    /\ UNCHANGED <<sim, attrs, objects, housing_market, consumers, sold, accrued, builds,
                   income, house_class>>

(* Consumer.compute_savings(self.years): the int is bound to self, years is missing *)
ComputeConsumersSavings ==
    /\ result' =
          IF "consumers" \notin attrs
          THEN Raised("compute_consumers_savings", "AttributeError")
          ELSE IF consumers = <<>>
          THEN Returned("compute_consumers_savings", None)
          ELSE Raised("compute_consumers_savings", "TypeError")
    /\ UNCHANGED <<sim, attrs, objects, housing_market, consumers, sold, accrued, builds,
                   income, house_class>>

shuffle(s) ==
    {[i \in 1..Len(s) |-> s[f[i]]] :
        f \in {g \in [1..Len(s) -> 1..Len(s)] : \A i, j \in 1..Len(s) : g[i] = g[j] => i = j}}

(* The sort key reads Consumer.annual_income, which the class does not have;   *)
(* the loop reads Consumer.house (the class default, None) and calls           *)
(* Consumer.buy_a_house(self.housing_market) with housing_market missing.      *)
CleanTheMarket ==
    /\ IF "consumers" \notin attrs
       THEN /\ result' = Raised("clean_the_market", "AttributeError")
            /\ consumers' = consumers
       ELSE IF sim.cleaning_market_mechanism \in {INCOME_ORDER_DESCENDANT, INCOME_ORDER_ASCENDANT}
       THEN /\ result' = IF consumers = <<>>
                         THEN Returned("clean_the_market", None)
                         ELSE Raised("clean_the_market", "AttributeError")
            /\ consumers' = consumers
       ELSE /\ consumers' \in shuffle(consumers)
            /\ result' =
                  IF consumers = <<>> \/ ConsumerClass.house # None
                  THEN Returned("clean_the_market", None)
                  ELSE IF "housing_market" \notin attrs
                  THEN Raised("clean_the_market", "AttributeError")
                  ELSE Raised("clean_the_market", "TypeError")
    /\ UNCHANGED <<sim, attrs, objects, housing_market, sold, accrued, builds,
                   income, house_class>>

(* The generator tests Consumer.house, the class attribute, for every consumer *)
ComputeOwnersPopulationRate ==
    /\ result' =
          IF "consumers" \notin attrs
          THEN Raised("compute_owners_population_rate", "AttributeError")
          ELSE LET owners == Cardinality({i \in 1..Len(consumers) : ConsumerClass.house # None})
               IN  IF sim.consumers_number = 0
                   THEN Raised("compute_owners_population_rate", "ZeroDivisionError")
                   ELSE Returned("compute_owners_population_rate",
                                 Norm(<<owners, sim.consumers_number>>))
    /\ UNCHANGED <<sim, attrs, objects, housing_market, consumers, sold, accrued, builds,
                   income, house_class>>

(* Mutant: the sold houses are counted instead of the available ones *)
compute_houses_availability_rate_of_sold(heap, houses) ==
    LET available_houses == Cardinality({k \in 1..Len(houses) : ~heap[houses[k]].available})
    IN  Norm(<<available_houses, Len(houses)>>)

(* The value returned for a non-empty list of houses *)
compute_houses_availability_rate(heap, houses) ==
    LET available_houses == Cardinality({k \in 1..Len(houses) : heap[houses[k]].available})
    IN  Norm(<<available_houses, Len(houses)>>)

ComputeHousesAvailabilityRate ==
    /\ result' =
          IF "housing_market" \notin attrs
          THEN Raised("compute_houses_availability_rate", "AttributeError")
          ELSE IF Len(housing_market) = 0
          THEN Raised("compute_houses_availability_rate", "ZeroDivisionError")
          ELSE Returned("compute_houses_availability_rate",
                        compute_houses_availability_rate(objects, housing_market))
    /\ UNCHANGED <<sim, attrs, objects, housing_market, consumers, sold, accrued, builds,
                   income, house_class>>

-----------------------------------------------------------------------------
(* Calls made on the entities directly *)

(* consumers[i].buy_a_house(housing_market) *)
BuyAHouse(i) ==
    /\ {"consumers", "housing_market"} \subseteq attrs
    /\ i \in 1..Len(consumers)
    /\ LET after == buy_a_house(consumers[i], objects, housing_market)
       IN  /\ consumers' = [consumers EXCEPT ![i] = after[1]]
           /\ objects' = after[2]
           /\ sold' = IF after[1].house # consumers[i].house
                      THEN sold \cup Range(after[1].house) ELSE sold
    /\ result' = Returned("buy_a_house", None)
    /\ UNCHANGED <<sim, attrs, housing_market, accrued, builds,
                   income, house_class>>

(* consumers[i].compute_savings(y), while the consumer has accrued at most   *)
(* cap periods in all                                                       *)
ComputeSavings(i, y, cap) ==
    /\ "consumers" \in attrs
    /\ i \in 1..Len(consumers)
    /\ accrued[consumers[i].id + 1] + y <= cap
    /\ consumers' = [consumers EXCEPT ![i] = compute_savings(consumers[i], y)]
    /\ accrued' = [accrued EXCEPT ![consumers[i].id + 1] = @ + y]
    /\ result' = Returned("compute_savings", None)
    /\ UNCHANGED <<sim, attrs, objects, housing_market, sold, builds,
                   income, house_class>>

Next ==
    \/ CreateHousingMarket(MaxBuilds)
    \/ CreateConsumers
    \/ ComputeConsumersSavings
    \/ CleanTheMarket
    \/ ComputeOwnersPopulationRate
    \/ ComputeHousesAvailabilityRate
    \/ \E i \in 1..MaxConsumers : BuyAHouse(i)
    \/ \E i \in 1..MaxConsumers, y \in 0..MaxAccrual : ComputeSavings(i, y, MaxAccrual)

Spec == Init /\ [][Next]_vars

-----------------------------------------------------------------------------
(* The entities used directly, without a Simulation *)

NoSimulation ==
    [housing_market_data |-> <<>>, consumers_number |-> 0, years |-> 0,
     annual_income |-> [minimum |-> 0, maximum |-> 0],
     children_range |-> [minimum |-> 0, maximum |-> 0],
     cleaning_market_mechanism |-> RANDOM,
     saving_rate |-> saving_rate, interest_rate |-> interest_rate]

(* A HousingMarket holding one House per record, in input order *)
MarketOf(data) ==
    /\ objects = [i \in 1..Len(data) |-> House(data[i])]
    /\ housing_market = [i \in 1..Len(data) |-> i]

(* house.sell_house() on a house of the market *)
SellHouse(r) ==
    /\ r \in Range(housing_market)
    /\ objects' = [objects EXCEPT ![r] = sell_house(objects[r])]
    /\ sold' = sold \cup {r}
    /\ result' = Returned("sell_house", None)
    /\ UNCHANGED <<sim, attrs, housing_market, consumers, accrued, builds,
                   income, house_class>>

CalculateAveragePrice(bedrooms) ==
    /\ result' = Returned("calculate_average_price",
                          calculate_average_price(objects, housing_market, bedrooms))
    /\ UNCHANGED <<sim, attrs, objects, housing_market, consumers, sold, accrued, builds,
                   income, house_class>>

GetHousesThatMeetRequirements(max_price, segment) ==
    /\ result' = Returned("get_houses_that_meet_requirements",
              get_houses_that_meet_requirements(objects, housing_market, max_price, segment))
    /\ UNCHANGED <<sim, attrs, objects, housing_market, consumers, sold, accrued, builds,
                   income, house_class>>

BedroomFilters == {None} \cup {Some(b) : b \in Bedrooms \cup {Max(Bedrooms) + 1}}

InitMarket ==
    /\ sim = NoSimulation
    /\ attrs = {"housing_market"}
    /\ \E data \in DataLists(Bedrooms, MaxMarket) : MarketOf(data)
    /\ consumers = <<>>
    /\ result = Returned("__init__", None)
    /\ sold = {}
    /\ accrued = <<>>
    /\ builds = [housing_market |-> 0, consumers |-> 0]
    /\ income = None
    /\ house_class = "_agent_based_model.houses"

NextMarket ==
    \/ \E r \in 1..MaxMarket : SellHouse(r)
    \/ \E bedrooms \in BedroomFilters : CalculateAveragePrice(bedrooms)
    \/ \E max_price \in MaxPrices, segment \in Segment :
          GetHousesThatMeetRequirements(max_price, segment)

SpecMarket == InitMarket /\ [][NextMarket]_vars

(* One Consumer built directly, facing a market *)
InitConsumer ==
    /\ sim = NoSimulation
    /\ attrs = {"housing_market", "consumers"}
    /\ \E data \in DataLists({Max(Bedrooms)}, MaxMarket) : MarketOf(data)
    /\ \E annual_income \in DirectIncomes, segment \in Segment :
          \E savings \in {ConsumerClass.savings, RMul(Q(annual_income), saving_rate)} :
              consumers =
                  <<Consumer(0, annual_income, 0, segment, savings, saving_rate, interest_rate)>>
    /\ result = Returned("__init__", None)
    /\ sold = {}
    /\ accrued = <<0>>
    /\ builds = [housing_market |-> 0, consumers |-> 0]
    /\ income = None
    /\ house_class = "_agent_based_model.houses"

NextConsumer ==
    \/ \E y \in 0..MaxYears : ComputeSavings(1, y, MaxYears)
    \/ BuyAHouse(1)

SpecConsumer == InitConsumer /\ [][NextConsumer]_vars

-----------------------------------------------------------------------------
(* One House of either class, in a market of its own *)

(* house.get_quality_score(), the method of the class the house is of *)
GetQualityScore(r) ==
    /\ r \in DOMAIN objects
    /\ objects' = [objects EXCEPT ![r] =
                      IF house_class = "_agent_based_model.houses"
                      THEN get_quality_score(@)
                      ELSE agent_based_model_get_quality_score(@)]
    /\ result' = Returned("get_quality_score", None)
    /\ UNCHANGED <<sim, attrs, housing_market, consumers, sold, accrued, builds,
                   income, house_class>>

InitHouse ==
    /\ sim = NoSimulation
    /\ attrs = {"housing_market"}
    /\ \E area \in QualityAreas, year_built \in QualityYears :
          MarketOf(<<[id |-> Min(Ids), price |-> Min(Prices), area |-> area,
                     bedrooms |-> Max(Bedrooms), year_built |-> year_built]>>)
    /\ consumers = <<>>
    /\ result = Returned("__init__", None)
    /\ sold = {}
    /\ accrued = <<>>
    /\ builds = [housing_market |-> 0, consumers |-> 0]
    /\ income = None
    /\ house_class \in {"_agent_based_model.houses", "agent_based_model.houses"}

NextHouse ==
    \/ GetQualityScore(1)
    \/ SellHouse(1)

SpecHouse == InitHouse /\ [][NextHouse]_vars

-----------------------------------------------------------------------------
(* The Simulation fed with arbitrary input records *)

Without(data, key) == [k \in (DOMAIN data) \ {key} |-> data[k]]

(* Records that bind, with any identifier, and records lacking one field *)
CompleteRecords ==
    [id : Ids, price : {Min(Prices)}, area : Areas, bedrooms : {Max(Bedrooms)},
     year_built : YearsBuilt]
IncompleteRecords ==
    {Without(data, key) : data \in {d \in CompleteRecords : d.id = Min(Ids)},
                          key \in HouseFields}
RawDataLists == SeqsUpTo(CompleteRecords \cup IncompleteRecords, MaxRecords)

(* simulation.housing_market_data = data *)
SetHousingMarketData(data) ==
    /\ sim' = [sim EXCEPT !.housing_market_data = data]
    /\ result' = Returned("housing_market_data", None)
    /\ UNCHANGED <<attrs, objects, housing_market, consumers, sold, accrued, builds,
                   income, house_class>>

(* simulation.housing_market.get_house_by_id(house_id) *)
GetHouseById(house_id) ==
    /\ "housing_market" \in attrs
    /\ result' = Returned("get_house_by_id",
                          get_house_by_id(objects, housing_market, house_id))
    /\ UNCHANGED <<sim, attrs, objects, housing_market, consumers, sold, accrued, builds,
                   income, house_class>>

InitBuild ==
    /\ \E data \in RawDataLists : sim = [NoSimulation EXCEPT !.housing_market_data = data]
    /\ attrs = {}
    /\ objects = <<>>
    /\ housing_market = <<>>
    /\ consumers = <<>>
    /\ result = Returned("__init__", None)
    /\ sold = {}
    /\ accrued = <<>>
    /\ builds = [housing_market |-> 0, consumers |-> 0]
    /\ income = None
    /\ house_class = "agent_based_model.houses"

NextBuild ==
    \/ CreateHousingMarket(MaxRebuilds)
    \/ \E data \in RawDataLists : SetHousingMarketData(data)
    \/ \E house_id \in Ids \cup {Max(Ids) + 1} : GetHouseById(house_id)
    \/ ComputeHousesAvailabilityRate
    \/ \E r \in 1..(MaxRecords * MaxRebuilds) : SellHouse(r)

SpecBuild == InitBuild /\ [][NextBuild]_vars

-----------------------------------------------------------------------------
(* create_consumers, one draw at a time *)

(* self.consumers = [], then the first draw of the first iteration; the     *)
(* return when consumers_number is 0                                        *)
CreateConsumersBegin ==
    /\ income = None
    /\ consumers' = <<>>
    /\ accrued' = <<>>
    /\ attrs' = attrs \cup {"consumers"}
    /\ IF sim.consumers_number = 0
       THEN income' = None /\ result' = Returned("create_consumers", None)
       ELSE (\E d \in IncomeDraws : income' = Some(d)) /\ result' = result
    /\ UNCHANGED <<sim, objects, housing_market, sold, builds, house_class>>

(* The draw is out of range: the while loop draws again *)
Redraw ==
    /\ income # None
    /\ rejected(sim.annual_income, income[1])
    /\ \E d \in IncomeDraws : income' = Some(d)
    /\ UNCHANGED <<sim, attrs, objects, housing_market, consumers, result, sold, accrued,
                   builds, house_class>>

(* The draw is in range: the consumer is built and appended; then the first *)
(* draw of the next iteration, or the return after the last one             *)
AppendConsumer ==
    /\ income # None
    /\ ~rejected(sim.annual_income, income[1])
    /\ \E children \in sim.children_range.minimum..sim.children_range.maximum,
          segment \in Segment :
          consumers' = Append(consumers,
              Consumer(Len(consumers), income[1], children, segment,
                       RMul(Q(income[1]), sim.saving_rate),
                       sim.saving_rate, sim.interest_rate))
    /\ accrued' = Append(accrued, 0)
    /\ IF Len(consumers) + 1 = sim.consumers_number
       THEN income' = None /\ result' = Returned("create_consumers", None)
       ELSE (\E d \in IncomeDraws : income' = Some(d)) /\ result' = result
    /\ UNCHANGED <<sim, attrs, objects, housing_market, sold, builds, house_class>>

(* Simulations whose income limits are any pair, minimum > maximum included *)
InitDraw ==
    /\ sim \in [housing_market_data : {<<>>},
                consumers_number : 0..MaxConsumers,
                years : {1},
                annual_income : [minimum : IncomeLimits, maximum : IncomeLimits],
                children_range : {[minimum |-> 0, maximum |-> 0]},
                cleaning_market_mechanism : {RANDOM},
                saving_rate : {saving_rate},
                interest_rate : {interest_rate}]
    /\ attrs = {}
    /\ objects = <<>>
    /\ housing_market = <<>>
    /\ consumers = <<>>
    /\ result = Returned("__init__", None)
    /\ sold = {}
    /\ accrued = <<>>
    /\ builds = [housing_market |-> 0, consumers |-> 0]
    /\ income = None
    /\ house_class = "agent_based_model.houses"

NextDraw ==
    \/ CreateConsumersBegin
    \/ Redraw
    \/ AppendConsumer

SpecDraw == InitDraw /\ [][NextDraw]_vars

(* The program keeps running, and the draws are fair: a loop that keeps      *)
(* drawing eventually draws a value that is not rejected, if there is one.  *)
RedrawInRange == Redraw /\ ~rejected(sim.annual_income, income'[1])

SpecDrawFair ==
    /\ SpecDraw
    /\ WF_vars(AppendConsumer)
    /\ WF_vars(RedrawInRange)

-----------------------------------------------------------------------------
(* Claims about the Consumer and the Simulation *)

Owners == {i \in 1..Len(consumers) : consumers[i].house # None}

CanAfford(c, r) == objects[r].available /\ RLe(Q(objects[r].price), c.savings)

(* C1: a Consumer holds at most one House, and a house once acquired stays   *)
(* the consumer's house across every later buy_a_house, compute_savings and  *)
(* clean_the_market (consumers are followed by identifier: the shuffle of    *)
(* clean_the_market reorders the list).                                      *)
C1_HouseKept ==
    [][/\ \A i \in 1..Len(consumers') : Len(consumers'[i].house) <= 1
       /\ result'.op \in {"buy_a_house", "compute_savings", "clean_the_market"}
             => \A i \in Owners :
                    \E j \in 1..Len(consumers') :
                        /\ consumers'[j].id = consumers[i].id
                        /\ consumers'[j].house = consumers[i].house]_vars

(* clean_the_market has run, through its shuffle and into its loop, on a    *)
(* population in which a consumer already owned a house.                    *)
C1_Witness ==
    /\ result.op = "clean_the_market"
    /\ result.raised = "TypeError"
    /\ Owners # {}
    /\ \E i \in 1..Len(consumers) : consumers[i].id # i - 1

(* C2: no House is owned by two Consumers, and every owned House is          *)
(* unavailable, in every state of the run.                                   *)
C2_ExclusiveOwnership ==
    /\ \A i, j \in Owners : i # j => consumers[i].house # consumers[j].house
    /\ \A i \in Owners : ~objects[consumers[i].house[1]].available

(* Two consumers bought from the shared market, one after the other *)
C2_Witness ==
    /\ result.op = "buy_a_house"
    /\ \E i, j \in Owners : i # j

(* C3: a house-less consumer that can afford some available house acquires  *)
(* the first such house in market order; that house becomes unavailable.    *)
C3_FirstAffordable ==
    [][\A i \in 1..Len(consumers) :
          (/\ result'.op = "buy_a_house"
           /\ BuyAHouse(i)
           /\ consumers[i].house = None
           /\ \E k \in 1..Len(housing_market) : CanAfford(consumers[i], housing_market[k]))
          => LET first == CHOOSE k \in 1..Len(housing_market) :
                             /\ CanAfford(consumers[i], housing_market[k])
                             /\ \A m \in 1..(k - 1) : ~CanAfford(consumers[i], housing_market[m])
             IN  /\ consumers'[i].house = Some(housing_market[first])
                 /\ ~objects'[housing_market[first]].available]_vars

(* The example of the claim: houses priced 100000, 150000, 200000 in that   *)
(* order, savings 180000: the 100000 house is the one bought.               *)
C3_Witness ==
    /\ result.op = "buy_a_house"
    /\ Len(housing_market) = 3
    /\ [k \in 1..3 |-> objects[housing_market[k]].price] = <<100000, 150000, 200000>>
    /\ consumers[1].savings = Q(180000)
    /\ consumers[1].house = Some(housing_market[1])
    /\ [k \in 1..3 |-> objects[housing_market[k]].available] = <<FALSE, TRUE, TRUE>>

(* C4: with one available house that two house-less consumers of different  *)
(* income can both afford, clean_the_market gives it to the higher income   *)
(* under INCOME_ORDER_DESCENDANT and to the lower under                     *)
(* INCOME_ORDER_ASCENDANT.                                                  *)
C4_ClearingOrder ==
    [][(/\ CleanTheMarket
        /\ {"consumers", "housing_market"} \subseteq attrs
        /\ Len(consumers) = 2
        /\ Owners = {}
        /\ consumers[1].annual_income # consumers[2].annual_income
        /\ Cardinality({r \in Range(housing_market) : objects[r].available}) = 1
        /\ \E r \in Range(housing_market) :
              CanAfford(consumers[1], r) /\ CanAfford(consumers[2], r)
        /\ sim.cleaning_market_mechanism # RANDOM)
       => \E w \in 1..2 :
              /\ consumers'[w].house # None
              /\ \A l \in 1..2 :
                    IF sim.cleaning_market_mechanism = INCOME_ORDER_DESCENDANT
                    THEN consumers'[l].annual_income <= consumers'[w].annual_income
                    ELSE consumers'[l].annual_income >= consumers'[w].annual_income]_vars

(* C5: for a non-empty population compute_owners_population_rate returns    *)
(* (consumers owning a house) / (consumers).                                *)
C5_OwnersRate ==
    (result.op = "compute_owners_population_rate" /\ consumers # <<>>)
        => /\ result.raised = ""
           /\ result.value = Norm(<<Cardinality(Owners), Len(consumers)>>)

(* C6: compute_consumers_savings, after create_consumers, completes and     *)
(* leaves every consumer with the years-fold accrual of its savings.        *)
C6_AllSavingsAccrued ==
    [][(ComputeConsumersSavings /\ "consumers" \in attrs)
       => /\ result'.raised = ""
          /\ Len(consumers') = Len(consumers)
          /\ \A i \in 1..Len(consumers) :
                consumers'[i] = compute_savings(consumers[i], sim.years)]_vars


(* C9: compute_savings(years) contributes annual_income * saving_rate and   *)
(* then compounds by (1 + interest_rate), once per period: S_0 is the       *)
(* savings before the call, S_k = (S_{k-1} + I*r) * (1+i), the savings after *)
(* the call are S_years (S_0 when years = 0), which is also the closed form *)
(* i * S_years = i * S_0 * q^years + I*r*q * (q^years - 1), q = 1 + i.      *)
C9_SavingsRecurrence ==
    [][\A y \in 0..MaxYears :
          (result'.op = "compute_savings" /\ ComputeSavings(1, y, MaxYears))
          => LET c == consumers[1]
                 Ir == RMul(Q(c.annual_income), c.saving_rate)
                 q == RAdd(Q(1), c.interest_rate)
                 S[k \in 0..y] ==
                     IF k = 0 THEN c.savings ELSE RMul(RAdd(S[k - 1], Ir), q)
                 qPow[k \in 0..y] == IF k = 0 THEN Q(1) ELSE RMul(qPow[k - 1], q)
             IN  /\ consumers'[1].savings = S[y]
                 /\ RMul(c.interest_rate, consumers'[1].savings)
                       = RAdd(RMul(c.interest_rate, RMul(c.savings, qPow[y])),
                              RMul(RMul(Ir, q), RAdd(qPow[y], Q(-1))))
                 /\ consumers' = <<[c EXCEPT !.savings = consumers'[1].savings]>>]_vars

(* The example of the claim: I = 50000, r = 0.3, i = 0.05, S_0 = 0 (the    *)
(* other start, 15000, gives 31500), one period: 15750.                     *)
C9_Witness ==
    /\ result.op = "compute_savings"
    /\ consumers[1].annual_income = 50000
    /\ accrued[1] = 1
    /\ consumers[1].savings = Q(15750)

(* C11: for a non-empty inventory compute_houses_availability_rate returns  *)
(* (houses with available = true) / (houses): a value in [0, 1], 1 when no   *)
(* house has been sold and 0 when every house has been sold.                 *)
C11_AvailabilityRate ==
    (result.op = "compute_houses_availability_rate" /\ housing_market # <<>>)
        => LET available == {r \in Range(housing_market) : objects[r].available}
               total == Cardinality(Range(housing_market))
           IN  /\ result.raised = ""
               /\ result.value[1] * total = Cardinality(available) * result.value[2]
               /\ RLe(Q(0), result.value) /\ RLe(result.value, Q(1))
               /\ Range(housing_market) \cap sold = {} => result.value = Q(1)
               /\ Range(housing_market) \subseteq sold => result.value = Q(0)

(* The rate taken when one of two houses has been bought: one half *)
C11_Witness ==
    /\ result.op = "compute_houses_availability_rate"
    /\ result.value = <<1, 2>>
    /\ Cardinality(Owners) = 1

LaterStages ==
    {"compute_consumers_savings", "clean_the_market",
     "compute_owners_population_rate", "compute_houses_availability_rate"}

(* The consumers are the same objects with the same savings and houses,     *)
(* possibly in another order; the houses are untouched.                     *)
NoPurchaseNoSavingsChange ==
    /\ objects' = objects
    /\ Len(consumers') = Len(consumers)
    /\ \A i \in 1..Len(consumers) : \E j \in 1..Len(consumers') : consumers'[j] = consumers[i]

C18_NothingAffordable ==
    [][(/\ result'.op = "buy_a_house"
        /\ BuyAHouse(1)
        /\ consumers[1].house = None
        /\ \A r \in Range(housing_market) : ~CanAfford(consumers[1], r))
       => /\ result'.raised = ""
          /\ consumers'[1].house = None
          /\ consumers'[1].savings = consumers[1].savings
          /\ UNCHANGED <<consumers, objects, housing_market, sold>>]_vars

(* An attempt that left the consumer without a house although houses were   *)
(* on offer: each of them is priced above the savings.                      *)
C18_Witness ==
    /\ result.op = "buy_a_house"
    /\ consumers[1].house = None
    /\ \E r \in Range(housing_market) : objects[r].available
    /\ \A r \in Range(housing_market) : ~RLe(Q(objects[r].price), consumers[1].savings)

(* C19: once the market is built, every step other than a rebuild leaves    *)
(* the market's list of houses and each house's id, price, area, bedrooms   *)
(* and year_built (and quality_score) as they were; available may only go   *)
(* from true to false.                                                      *)
C19_MarketFrame ==
    [][("housing_market" \in attrs /\ result'.op # "create_housing_market")
       => /\ housing_market' = housing_market
          /\ DOMAIN objects' = DOMAIN objects
          /\ \A r \in DOMAIN objects :
                /\ objects'[r] = [objects[r] EXCEPT !.available = objects'[r].available]
                /\ objects'[r].available => objects[r].available]_vars

(* Savings accrued after a sale, in a market with a house sold and a house  *)
(* still on offer                                                           *)
C19_Witness ==
    /\ result.op = "compute_savings"
    /\ \E r \in Range(housing_market) : ~objects[r].available
    /\ \E r \in Range(housing_market) : objects[r].available

(* C20: when clean_the_market is over, no consumer without a house can     *)
(* afford a house that is still available.                                  *)
C20_MarketCleared ==
    (result.op = "clean_the_market" /\ {"consumers", "housing_market"} \subseteq attrs)
        => \A i \in 1..Len(consumers), r \in Range(housing_market) :
               consumers[i].house = None => ~CanAfford(consumers[i], r)

(* C21: in a run in which each of create_housing_market and               *)
(* create_consumers is called at most once, in every state the consumers    *)
(* that own a house are as many as the houses of the market that are not    *)
(* available; so owners + available houses = houses, and the owners are at  *)
(* most the consumers and at most the houses.                               *)
C21_OwnersMatchSold ==
    (builds.housing_market <= 1 /\ builds.consumers <= 1)
        => LET houses == Range(housing_market)
               unavailable == {r \in houses : ~objects[r].available}
               available == {r \in houses : objects[r].available}
           IN  /\ Cardinality(Owners) = Cardinality(unavailable)
               /\ Cardinality(Owners) + Cardinality(available) = Cardinality(houses)
               /\ Cardinality(Owners) <= Len(consumers)
               /\ Cardinality(Owners) <= Cardinality(houses)

(* Two consumers have tried to buy the one house of the market: one owns    *)
(* it, the other is left without                                            *)
C21_Witness ==
    /\ result.op = "buy_a_house"
    /\ Len(consumers) = 2
    /\ Len(housing_market) = 1
    /\ Cardinality(Owners) = 1
    /\ ~objects[housing_market[1]].available

InRange(statistics, x) == statistics.minimum <= x /\ x <= statistics.maximum

(* C14: when create_consumers has completed there are consumers_number      *)
(* consumers, each with an income within the limits (inclusive), savings    *)
(* annual_income * saving_rate, no house, and identifiers 0, 1, 2, ... in   *)
(* the order of creation.                                                   *)
C14_ConsumersCreated ==
    (result.op = "create_consumers" /\ income = None)
        => /\ Len(consumers) = sim.consumers_number
           /\ \A i \in 1..Len(consumers) :
                 /\ InRange(sim.annual_income, consumers[i].annual_income)
                 /\ consumers[i].savings
                       = RMul(Q(consumers[i].annual_income), sim.saving_rate)
                 /\ consumers[i].house = None
                 /\ consumers[i].id = i - 1
           /\ \A i, j \in 1..Len(consumers) : i # j => consumers[i].id # consumers[j].id

(* A full population drawn under limits that reject some of the draws *)
C14_Witness ==
    /\ result.op = "create_consumers"
    /\ income = None
    /\ Len(consumers) = MaxConsumers
    /\ \E d \in IncomeDraws : ~InRange(sim.annual_income, d)

Hittable == \E d \in IncomeDraws : InRange(sim.annual_income, d)

(* C15: under fair drawing create_consumers, once begun, returns whenever    *)
(* some draw can fall within the limits; when none can and consumers_number *)
(* > 0 it is not refused (no error is raised), and once begun it never      *)
(* returns.                                                                 *)
C15_Termination ==
    /\ (income # None /\ Hittable) ~> (income = None /\ result.op = "create_consumers")
    /\ []((~Hittable /\ sim.consumers_number > 0)
            => /\ result.op # "create_consumers"
               /\ result.raised = ""
               /\ income # None => [](income # None))

(* The loop drawing under minimum > maximum *)
C15_Witness ==
    /\ income # None
    /\ sim.annual_income.minimum > sim.annual_income.maximum
    /\ "consumers" \in attrs
    /\ consumers = <<>>

(* C12: the market built by create_housing_market holds at most one House   *)
(* per identifier, whatever the input records, in every state of the run.   *)
C12_OneHousePerId ==
    \A j, k \in 1..Len(housing_market) :
        j # k => objects[housing_market[j]].id # objects[housing_market[k]].id

-----------------------------------------------------------------------------
(* Claims about the House *)

(* The area and year cutoffs of the two classes *)
Thresholds ==
    IF house_class = "_agent_based_model.houses"
    THEN [large |-> 2000, mid |-> 1500, modern |-> 2000, older |-> 1980, minimum |-> 1980]
    ELSE [large |-> 200, mid |-> 150, modern |-> 150, older |-> 100, minimum |-> 80]

HouseOf(area, year_built) ==
    House([id |-> Min(Ids), price |-> Min(Prices), area |-> area,
           bedrooms |-> Max(Bedrooms), year_built |-> year_built])

-----------------------------------------------------------------------------
(* Claims about the HousingMarket *)

RECURSIVE SumOfPrices(_)
SumOfPrices(K) ==
    IF K = {} THEN 0
    ELSE LET k == CHOOSE x \in K : TRUE
         IN  objects[housing_market[k]].price + SumOfPrices(K \ {k})

(* Positions of the market holding an available house priced <= max_price *)
Candidates(max_price) ==
    {k \in 1..Len(housing_market) :
        /\ objects[housing_market[k]].available
        /\ RLe(Q(objects[housing_market[k]].price), max_price)}

(* Positions of the market holding an available house that passes the filter *)
Averaged(bedrooms) ==
    {k \in 1..Len(housing_market) :
        /\ objects[housing_market[k]].available
        /\ bedrooms # None => objects[housing_market[k]].bedrooms = bedrooms[1]}

(* The houses at the positions K of the market, in market order *)
InMarketOrder(K) ==
    [j \in 1..Cardinality(K) |->
        housing_market[CHOOSE k \in K : Cardinality({m \in K : m <= k}) = j]]

(* C7: get_houses_that_meet_requirements returns exactly the available      *)
(* houses priced <= max_price, in market order, whatever the segment; this  *)
(* holds of the call in every state of the market, and of the value the     *)
(* last call returned.                                                      *)
C7_Candidates ==
    /\ \A max_price \in MaxPrices, segment \in Segment :
          get_houses_that_meet_requirements(objects, housing_market, max_price, segment)
            = InMarketOrder(Candidates(max_price))
    /\ result.op = "get_houses_that_meet_requirements"
          => /\ result.raised = ""
             /\ \E max_price \in MaxPrices :
                   result.value = InMarketOrder(Candidates(max_price))

(* A result of two houses in market order that is not price order, from a   *)
(* market that also holds a sold house.                                     *)
C7_Witness ==
    /\ result.op = "get_houses_that_meet_requirements"
    /\ Len(result.value) = 2
    /\ objects[result.value[1]].price > objects[result.value[2]].price
    /\ \E r \in Range(housing_market) : ~objects[r].available

(* C8: a house on which sell_house was called is in no result of            *)
(* get_houses_that_meet_requirements and does not count in                  *)
(* calculate_average_price, in every later state; sell_house on a house     *)
(* already sold changes neither the houses nor the market.                  *)
C8_SoldExcluded ==
    /\ [](\A r \in sold :
            /\ \A max_price \in MaxPrices, segment \in Segment :
                  r \notin Range(get_houses_that_meet_requirements(
                                    objects, housing_market, max_price, segment))
            /\ \A bedrooms \in BedroomFilters :
                  calculate_average_price(objects, housing_market, bedrooms)
                    = calculate_average_price(
                          objects, SelectSeq(housing_market, LAMBDA x : x \notin sold), bedrooms))
    /\ [][\A r \in sold :
             (result'.op = "sell_house" /\ SellHouse(r))
             => UNCHANGED <<objects, housing_market, sold>>]_vars

(* An average taken after a sale, which differs from the average of all the *)
(* houses of the market                                                     *)
C8_Witness ==
    /\ result.op = "calculate_average_price"
    /\ sold # {}
    /\ result.value # Q(0)
    /\ result.value # Round2(<<SumOfPrices(1..Len(housing_market)), Len(housing_market)>>)

(* C10 as stated: calculate_average_price returns the average price of the  *)
(* available houses that pass the bedroom filter, and 0 when there is none. *)
C10_AverageExact ==
    result.op = "calculate_average_price"
        => \E bedrooms \in BedroomFilters :
               LET K == Averaged(bedrooms)
               IN  result.value = IF K = {} THEN Q(0)
                                  ELSE Norm(<<SumOfPrices(K), Cardinality(K)>>)

(* v is the average price over the positions K, rounded to two decimals: a  *)
(* multiple of 0.01 at most 0.005 away from it; 0 when K is empty           *)
IsRoundedAverage(v, K) ==
    IF K = {} THEN v = Q(0)
    ELSE /\ 100 % v[2] = 0
         /\ 2 * Abs(v[1] * (100 \div v[2]) * Cardinality(K) - 100 * SumOfPrices(K))
               <= Cardinality(K)

(* C10 as amended: the value returned is that average rounded to two        *)
(* decimal places, and 0 when no house matches; this holds of the call in   *)
(* every state of the market, and of the value the last call returned.      *)
C10_AverageRounded ==
    /\ \A bedrooms \in BedroomFilters :
          IsRoundedAverage(calculate_average_price(objects, housing_market, bedrooms),
                           Averaged(bedrooms))
    /\ result.op = "calculate_average_price"
          => /\ result.raised = ""
             /\ \E bedrooms \in BedroomFilters :
                   IsRoundedAverage(result.value, Averaged(bedrooms))

(* An average over the houses of one bedroom count that had to be rounded   *)
C10_Witness ==
    /\ result.op = "calculate_average_price"
    /\ result.value[2] = 100
    /\ \E b \in Bedrooms : \A r \in Range(housing_market) : objects[r].bedrooms = b

=============================================================================
